---- MODULE Spec2Model ----
(***************************************************************************)
(* Model of GO_word_cloud_fixed.py: the word-cloud pipeline                *)
(* generate_go_wordcloud (load, schema check, frequency maps, per-category *)
(* loop, summary), the category filter filter_by_ontology and the colour   *)
(* callback custom_color_func.                                             *)
(*                                                                         *)
(* Python str values that the code transforms character by character       *)
(* (ONTOLOGY values, the ontology argument) are sequences of one-letter    *)
(* strings; keys that are only compared (palette names, display texts,     *)
(* column names) are TLA+ strings.  Colour channels are kept in tenths     *)
(* (every stop of COLOR_SCHEMES is a multiple of 0.1) and t in hundredths, *)
(* so the float arithmetic of the callback is integer arithmetic here.     *)
(***************************************************************************)
EXTENDS Integers, Sequences, FiniteSets, TLC

\* ------------------------------------------------------------------ bounds
MaxRows == 2
MaxCount == 1
MaxFreq == 3

\* ------------------------------------------------------- python primitives
\* None, kept apart from every str (no str has a component longer than one letter)
None == <<"None">>
\* None where the value is a palette name or a display text
NoneName == "<None>"

UpperChar(c) ==
  CASE c = "a" -> "A" [] c = "b" -> "B" [] c = "c" -> "C" [] c = "f" -> "F"
    [] c = "l" -> "L" [] c = "m" -> "M" [] c = "p" -> "P" [] OTHER -> c

\* str.upper()
Upper(s) == [k \in DOMAIN s |-> UpperChar(s[k])]

ALL == <<"A", "L", "L">>
BP == <<"B", "P">>
CC == <<"C", "C">>
MF == <<"M", "F">>

\* ------------------------------------------------------------ COLOR_SCHEMES
COLOR_SCHEMES ==
  [ BP |-> << <<0, 5, 8>>, <<0, 7, 10>>, <<1, 8, 10>> >>,
    CC |-> << <<0, 6, 3>>, <<2, 8, 4>>, <<4, 9, 5>> >>,
    MF |-> << <<7, 1, 2>>, <<9, 2, 3>>, <<10, 4, 4>> >>,
    ALL |-> << <<5, 0, 8>>, <<3, 3, 9>>, <<0, 6, 6>>, <<1, 8, 4>> >>,
    blue_purple |-> << <<1, 1, 9>>, <<5, 0, 8>>, <<8, 1, 5>> >>,
    scientific |-> << <<0, 3, 7>>, <<0, 5, 5>>, <<1, 7, 4>> >>,
    elegant |-> << <<2, 2, 5>>, <<4, 2, 4>>, <<6, 2, 3>> >> ]

Min(a, b) == IF a <= b THEN a ELSE b

\* ------------------------------------------------------------------- tables
required_cols == <<"ID", "Description", "ONTOLOGY", "OccurrenceCount">>

Range(s) == {s[k] : k \in DOMAIN s}

Texts == {"a", "b"}
Ontologies == {BP, CC, MF}

Rows ==
  [Description : Texts, ONTOLOGY : Ontologies, OccurrenceCount : 0..MaxCount]

\* the ID column: one GO identifier per line of the file
GoId(k) == <<"GO:1", "GO:2", "GO:3", "GO:4">>[k]

SeqsUpTo(S, n) == UNION {[1..m -> S] : m \in 0..n}

WithId(rs) ==
  [k \in DOMAIN rs |->
    [ID |-> GoId(k), Description |-> rs[k].Description,
     ONTOLOGY |-> rs[k].ONTOLOGY, OccurrenceCount |-> rs[k].OccurrenceCount]]

\* the data frames pd.read_csv can return for files with all four columns
Tables == {WithId(rs) : rs \in SeqsUpTo(Rows, MaxRows)}

\* df[mask]: the rows satisfying the mask, in order
RECURSIVE SelectRows(_, _)
SelectRows(rows, ont) ==
  IF rows = << >> THEN << >>
  ELSE IF Head(rows).ONTOLOGY = ont
       THEN <<Head(rows)>> \o SelectRows(Tail(rows), ont)
       ELSE SelectRows(Tail(rows), ont)

\* filter_by_ontology comparing the argument as given, without upper()
filter_by_ontology_as_given(rows, ontology) ==
  IF ontology = None \/ ontology = ALL
  THEN rows
  ELSE SelectRows(rows, ontology)

\* filter_by_ontology(df, ontology) on the rows of df
filter_by_ontology(rows, ontology) ==
  IF ontology = None \/ Upper(ontology) = ALL
  THEN rows
  ELSE SelectRows(rows, Upper(ontology))

\* dict(zip(df[text_field], df['OccurrenceCount'])): a later row overwrites
DictZip(rows, text_field) ==
  [t \in {rows[k][text_field] : k \in DOMAIN rows} |->
    LET last == CHOOSE k \in DOMAIN rows :
                  /\ rows[k][text_field] = t
                  /\ \A j \in DOMAIN rows : rows[j][text_field] = t => j <= k
    IN rows[last].OccurrenceCount]

\* max(d.values()) of a non-empty dict
MaxValue(d) ==
  CHOOSE v \in {d[t] : t \in DOMAIN d} : \A t \in DOMAIN d : d[t] <= v


\* ------------------------------------------------------ the colour callback
\* freq_dict.get(word, 1)
DictGet(d, word, default) == IF word \in DOMAIN d THEN d[word] ELSE default

\* custom_color_func for a word of frequency freq: colors is the palette,
\* the result is (int(r*255), int(g*255), int(b*255))
custom_color_func(word, fd, gmax, colors) ==
  LET L == Len(colors)
      freq == DictGet(fd, word, 1)
      \* int(min(1.0, freq / gmax) * (L - 1) * 100)
      fine == (Min(freq, gmax) * (L - 1) * 100) \div gmax
      idx == Min(fine, L - 2)
      start_color == colors[(idx \div 100) + 1]
      end_color == colors[Min((idx \div 100) + 1, L - 1) + 1]
      t == idx % 100
      chan(c) == ((start_color[c] * (100 - t) + end_color[c] * t) * 255) \div 1000
  IN <<chan(1), chan(2), chan(3)>>

\* ---------------------------------------------------------- the run's state
VARIABLES
  pc,               \* position in generate_go_wordcloud (or in a direct call)
  args,             \* the arguments of the call
  df,               \* the loaded data frame: columns and rows
  missing_cols,     \* line 67
  all_freq_dict,    \* line 84
  global_max_freq,  \* line 85
  pos,              \* position of the loop of line 104 in ontology_settings
  freq_dict,        \* line 116
  color_func,       \* lines 129-154: the palette of the callback, or NoneName
  out,              \* what the run printed and asked of the renderer, in order
  files,            \* image files written by savefig
  stats,            \* the counts of the summary, lines 200-208
  result,           \* return value of generate_go_wordcloud
  exc,              \* the exception that escaped generate_go_wordcloud
  ret               \* return value of a direct call of a helper

vars ==
  <<pc, args, df, missing_cols, all_freq_dict, global_max_freq, pos, freq_dict,
    color_func, out, files, stats, result, exc, ret>>

\* ontology_settings with CC inserted before BP
ontology_settings_swapped ==
  << [name |-> ALL, color |-> "ALL", file |-> "_all.png"],
     [name |-> CC, color |-> "CC", file |-> "_cc.png"],
     [name |-> BP, color |-> "BP", file |-> "_bp.png"],
     [name |-> MF, color |-> "MF", file |-> "_mf.png"] >>

\* ontology_settings, in insertion order (lines 88-93)
ontology_settings ==
  << [name |-> ALL, color |-> "ALL", file |-> "_all.png"],
     [name |-> BP, color |-> "BP", file |-> "_bp.png"],
     [name |-> CC, color |-> "CC", file |-> "_cc.png"],
     [name |-> MF, color |-> "MF", file |-> "_mf.png"] >>

NumCategories == Len(ontology_settings)

\* generate_flags that ignores the switches
generate_flags_ignored(a, name) == TRUE

\* generate_flags (lines 96-101)
generate_flags(a, name) ==
  CASE name = ALL -> a.generate_all
    [] name = BP -> a.generate_bp
    [] name = CC -> a.generate_cc
    [] name = MF -> a.generate_mf

\* values of --scheme: absent, empty, a palette, a name that is no palette
Schemes == {NoneName, "", "elegant", "rainbow"}

AllInvocations ==
  [use_id : BOOLEAN, color_scheme : Schemes,
   generate_all : BOOLEAN, generate_bp : BOOLEAN,
   generate_cc : BOOLEAN, generate_mf : BOOLEAN]

\* The calls explored: every combination of the four category switches with
\* the default display field and palette, and every display field and
\* --scheme value with the four categories enabled.
Invocations ==
  {a \in AllInvocations :
     \/ a.generate_all /\ a.generate_bp /\ a.generate_cc /\ a.generate_mf
     \/ ~a.use_id /\ a.color_scheme = NoneName}

\* a test for None only, in place of truthiness
Truthy_not_none(s) == s # NoneName

\* python truthiness of an optional str
Truthy(s) == s # NoneName /\ s # ""

NoDf == [columns |-> {}, rows |-> << >>]
NoStats == [total |-> -1, bp |-> -1, cc |-> -1, mf |-> -1]
Event(e, c, i) == [ev |-> e, cat |-> c, info |-> i]

Init ==
  /\ pc = "start"
  /\ args \in Invocations
  /\ df = NoDf
  /\ missing_cols = << >>
  /\ all_freq_dict = << >>
  /\ global_max_freq = -1
  /\ pos = 0
  /\ freq_dict = << >>
  /\ color_func = NoneName
  /\ out = << >>
  /\ files = {}
  /\ stats = NoStats
  /\ result = "None"
  /\ exc = "None"
  /\ ret = None

\* tables whose header lacks a required column: the rows are never read
HeaderSets == SUBSET Range(required_cols)

\* lines 55-63: read_csv with ',', then with '\t'
Load ==
  /\ pc = "start"
  /\ \/ /\ \E t \in Tables : df' = [columns |-> Range(required_cols), rows |-> t]
        /\ pc' = "loaded"
        /\ UNCHANGED <<out, result>>
     \/ /\ \E h \in HeaderSets \ {Range(required_cols)} :
             df' = [columns |-> h, rows |-> << >>]
        /\ pc' = "loaded"
        /\ UNCHANGED <<out, result>>
     \/ /\ out' = Append(out, Event("print_load_error", None, << >>))
        /\ result' = "False"
        /\ pc' = "done"
        /\ UNCHANGED df
  /\ UNCHANGED <<args, missing_cols, all_freq_dict, global_max_freq, pos,
                 freq_dict, color_func, files, stats, exc, ret>>

\* the column check without its return: the run goes on after the report
CheckColumns_no_return ==
  /\ pc = "loaded"
  /\ LET missing == SelectSeq(required_cols, LAMBDA c : c \notin df.columns)
     IN /\ missing_cols' = missing
        /\ out' = IF missing # << >>
                  THEN Append(out, Event("print_missing_cols", None, missing))
                  ELSE out
        /\ pc' = "checked"
  /\ UNCHANGED <<args, df, all_freq_dict, global_max_freq, pos, freq_dict,
                 color_func, files, stats, result, exc, ret>>

\* lines 65-70
CheckColumns ==
  /\ pc = "loaded"
  /\ LET missing == SelectSeq(required_cols, LAMBDA c : c \notin df.columns)
     IN /\ missing_cols' = missing
        /\ IF missing # << >>
           THEN /\ out' = Append(out, Event("print_missing_cols", None, missing))
                /\ result' = "False"
                /\ pc' = "done"
           ELSE /\ pc' = "checked"
                /\ UNCHANGED <<out, result>>
  /\ UNCHANGED <<args, df, all_freq_dict, global_max_freq, pos, freq_dict,
                 color_func, files, stats, exc, ret>>

\* line 81
text_field(a) == IF a.use_id THEN "ID" ELSE "Description"

\* lines 83-85: max() of an empty sequence raises ValueError
BuildGlobal ==
  /\ pc = "checked"
  /\ LET d == DictZip(df.rows, text_field(args))
     IN /\ all_freq_dict' = d
        /\ IF DOMAIN d = {}
           THEN /\ exc' = "ValueError"
                /\ pc' = "raised"
                /\ UNCHANGED <<global_max_freq, pos>>
           ELSE /\ global_max_freq' = MaxValue(d)
                /\ pos' = 1
                /\ pc' = "loop"
                /\ UNCHANGED exc
  /\ UNCHANGED <<args, df, missing_cols, freq_dict, color_func, out, files,
                 stats, result, ret>>


\* number of rows of df whose ONTOLOGY is ont: len(df[df['ONTOLOGY'] == ont])
CountRows(rows, ont) == Len(SelectRows(rows, ont))

\* lines 104-154: the head of one iteration, up to the choice of color_func
NextCategory ==
  /\ pc = "loop"
  /\ pos <= NumCategories
  /\ LET settings == ontology_settings[pos]
         ontology == settings.name
         filtered_df == filter_by_ontology(df.rows, ontology)
         d == DictZip(filtered_df, text_field(args))
         go_color_scheme ==
           IF Truthy(args.color_scheme) THEN args.color_scheme ELSE settings.color
     IN IF ~generate_flags(args, ontology)
        THEN /\ pos' = pos + 1
             /\ UNCHANGED <<pc, freq_dict, color_func, out>>
        ELSE IF Len(filtered_df) = 0
        THEN /\ out' = out \o << Event("filter", ontology, << >>),
                                 Event("print_skip", ontology, << >>) >>
             /\ pos' = pos + 1
             /\ UNCHANGED <<pc, freq_dict, color_func>>
        ELSE IF DOMAIN d = {}
        THEN /\ freq_dict' = d
             /\ out' = out \o << Event("filter", ontology, << >>),
                                 Event("print_skip_empty_dict", ontology, << >>) >>
             /\ pos' = pos + 1
             /\ UNCHANGED <<pc, color_func>>
        ELSE /\ freq_dict' = d
             /\ color_func' =
                  IF go_color_scheme \in DOMAIN COLOR_SCHEMES
                  THEN go_color_scheme ELSE NoneName
             /\ out' = out \o << Event("filter", ontology, << >>),
                                 Event("print_generating", ontology, << >>) >>
             /\ pc' = "render"
             /\ UNCHANGED pos
  /\ UNCHANGED <<args, df, missing_cols, all_freq_dict, global_max_freq, files,
                 stats, result, exc, ret>>

\* lines 156-187: WordCloud(color_func=...).generate_from_frequencies and the
\* figure.  The renderer is an external library: it may raise, and nothing
\* between line 156 and line 187 catches.  The callback divides by
\* global_max_freq (line 137).
Render ==
  /\ pc = "render"
  /\ LET ontology == ontology_settings[pos].name
     IN \/ /\ ~(color_func # NoneName /\ global_max_freq = 0)
           /\ out' = Append(out, Event("WordCloud", ontology, <<color_func>>))
           /\ pc' = "save"
           /\ UNCHANGED exc
        \/ /\ color_func # NoneName /\ global_max_freq = 0
           /\ exc' = "ZeroDivisionError"
           /\ pc' = "raised"
           /\ UNCHANGED out
        \/ /\ exc' = "RendererError"
           /\ pc' = "raised"
           /\ UNCHANGED out
  /\ UNCHANGED <<args, df, missing_cols, all_freq_dict, global_max_freq, pos,
                 freq_dict, color_func, files, stats, result, ret>>

\* savefig whose failure is reported and raised again
Save_reraise ==
  /\ pc = "save"
  /\ LET settings == ontology_settings[pos]
     IN \/ /\ files' = files \cup {settings.file}
           /\ out' = out \o << Event("print_saved", settings.name, << >>),
                               Event("close", settings.name, << >>) >>
           /\ pos' = pos + 1
           /\ pc' = "loop"
           /\ UNCHANGED exc
        \/ /\ out' = Append(out, Event("print_save_failed", settings.name, << >>))
           /\ exc' = "WriteError"
           /\ pc' = "raised"
           /\ UNCHANGED <<files, pos>>
  /\ UNCHANGED <<args, df, missing_cols, all_freq_dict, global_max_freq,
                 freq_dict, color_func, stats, result, ret>>

\* lines 189-197: savefig inside try/except, then plt.close()
Save ==
  /\ pc = "save"
  /\ LET settings == ontology_settings[pos]
     IN \/ /\ files' = files \cup {settings.file}
           /\ out' = out \o << Event("print_saved", settings.name, << >>),
                               Event("close", settings.name, << >>) >>
        \/ /\ out' = out \o << Event("print_save_failed", settings.name, << >>),
                               Event("close", settings.name, << >>) >>
           /\ UNCHANGED files
  /\ pos' = pos + 1
  /\ pc' = "loop"
  /\ UNCHANGED <<args, df, missing_cols, all_freq_dict, global_max_freq,
                 freq_dict, color_func, stats, result, exc, ret>>

\* lines 199-210
Summary ==
  /\ pc = "loop"
  /\ pos > NumCategories
  /\ stats' = [total |-> Len(df.rows), bp |-> CountRows(df.rows, BP),
               cc |-> CountRows(df.rows, CC), mf |-> CountRows(df.rows, MF)]
  /\ out' = Append(out, Event("print_summary", None, << >>))
  /\ result' = "True"
  /\ pc' = "done"
  /\ UNCHANGED <<args, df, missing_cols, all_freq_dict, global_max_freq, pos,
                 freq_dict, color_func, files, exc, ret>>

Next ==
  \/ Load
  \/ CheckColumns
  \/ BuildGlobal
  \/ NextCategory
  \/ Render
  \/ Save
  \/ Summary

Spec == Init /\ [][Next]_vars


\* ------------------------------------------- direct calls of the helpers
Idle ==
  /\ df = NoDf
  /\ missing_cols = << >>
  /\ all_freq_dict = << >>
  /\ global_max_freq = -1
  /\ pos = 0
  /\ freq_dict = << >>
  /\ color_func = NoneName
  /\ out = << >>
  /\ files = {}
  /\ stats = NoStats
  /\ result = "None"
  /\ exc = "None"
  /\ ret = None

\* palettes handed to the callback (line 130)
Palettes == {COLOR_SCHEMES[n] : n \in DOMAIN COLOR_SCHEMES}

FreqDicts == UNION {[S -> 0..MaxFreq] : S \in SUBSET Texts}

ColorCalls ==
  [word : Texts, freq_dict : FreqDicts, global_max_freq : 0..MaxFreq,
   colors : Palettes]

InitColor ==
  /\ pc = "call"
  /\ args \in ColorCalls
  /\ Idle

\* the renderer calls custom_color_func(word, ...): line 137 divides by
\* global_max_freq
CallColor ==
  /\ pc = "call"
  /\ "colors" \in DOMAIN args
  /\ IF args.global_max_freq = 0
     THEN /\ exc' = "ZeroDivisionError"
          /\ pc' = "raised"
          /\ UNCHANGED ret
     ELSE /\ ret' = custom_color_func(args.word, args.freq_dict,
                                      args.global_max_freq, args.colors)
          /\ pc' = "return"
          /\ UNCHANGED exc
  /\ UNCHANGED <<args, df, missing_cols, all_freq_dict, global_max_freq, pos,
                 freq_dict, color_func, out, files, stats, result>>

NextColor == CallColor

SpecColor == InitColor /\ [][NextColor]_vars

\* ONTOLOGY values of the rows and ontology arguments handed to the filter
FilterOntologies == {BP, CC, <<"b", "p">>, ALL}

FilterTables ==
  {WithId([k \in DOMAIN os |->
            [Description |-> "a", ONTOLOGY |-> os[k], OccurrenceCount |-> 1]]) :
     os \in SeqsUpTo(FilterOntologies, MaxRows)}

OntologyArgs ==
  {None, ALL, <<"a", "l", "l">>, <<"A", "l", "l">>, BP, <<"b", "p">>,
   <<"B", "p">>, CC, <<"c", "c">>, MF, << >>, <<"A", "L">>}

InitFilter ==
  /\ pc = "call"
  /\ args \in [df : FilterTables, ontology : OntologyArgs]
  /\ Idle

CallFilter ==
  /\ pc = "call"
  /\ "ontology" \in DOMAIN args
  /\ ret' = filter_by_ontology(args.df, args.ontology)
  /\ pc' = "return"
  /\ UNCHANGED <<args, df, missing_cols, all_freq_dict, global_max_freq, pos,
                 freq_dict, color_func, out, files, stats, result, exc>>

NextFilter == CallFilter

SpecFilter == InitFilter /\ [][NextFilter]_vars


\* ================================================================== claims
InLoop == pc \in {"loop", "render", "save"}
RequiredNames == {"ID", "Description", "ONTOLOGY", "OccurrenceCount"}
KnownPalettes ==
  {"BP", "CC", "MF", "ALL", "blue_purple", "scientific", "elegant"}
PosOf(c) == CASE c = ALL -> 1 [] c = BP -> 2 [] c = CC -> 3 [] c = MF -> 4
Enabled(c) ==
  \/ c = ALL /\ args.generate_all
  \/ c = BP /\ args.generate_bp
  \/ c = CC /\ args.generate_cc
  \/ c = MF /\ args.generate_mf
\* indices of the rows of the loaded table that belong to category c
Matching(c) ==
  {k \in DOMAIN df.rows : c = ALL \/ df.rows[k].ONTOLOGY = c}
Logged(e, c) == \E k \in DOMAIN out : out[k].ev = e /\ out[k].cat = c

\* C1: called for a term whose frequency equals the global maximum (> 0),
\* the colour callback returns the last stop of the palette, each channel
\* scaled by 255 and truncated.
C1_MaxFrequencyGetsLastStop ==
  (/\ pc = "return"
   /\ "colors" \in DOMAIN args
   /\ args.word \in DOMAIN args.freq_dict
   /\ args.freq_dict[args.word] = args.global_max_freq)
  => LET last == args.colors[Len(args.colors)]
     IN ret = <<(last[1] * 255) \div 10, (last[2] * 255) \div 10,
                (last[3] * 255) \div 10>>

\* C2: the global maximum that normalizes every category's colours is the
\* largest OccurrenceCount of any row of the full table, also when rows
\* share a display text.
C2_GlobalMaxIsLargestCount ==
  InLoop =>
    /\ \A k \in DOMAIN df.rows : df.rows[k].OccurrenceCount <= global_max_freq
    /\ \E k \in DOMAIN df.rows : df.rows[k].OccurrenceCount = global_max_freq

\* C3: a failure of the renderer for one category is not fatal: it never
\* ends the run, the later categories and the summary still follow.
C3_RendererFailureNotFatal ==
  ~(pc = "raised" /\ exc = "RendererError")

\* C10: a table that parses and has the four required columns (zero data
\* rows included), with a renderer and a writer that do not fail, ends in the
\* summary with success; no exception escapes.
C10_ValidTableEndsInSummary ==
  /\ pc = "raised" => exc = "RendererError"
  /\ (pc = "done" /\ df.columns = RequiredNames /\ ~Logged("print_load_error", None))
       => result = "True" /\ Logged("print_summary", None)


FileOf(c) ==
  CASE c = ALL -> "_all.png" [] c = BP -> "_bp.png"
    [] c = CC -> "_cc.png" [] c = MF -> "_mf.png"
DefaultPalette(c) ==
  CASE c = ALL -> "ALL" [] c = BP -> "BP" [] c = CC -> "CC" [] c = MF -> "MF"
Categories == {ALL, BP, CC, MF}
RunLoaded == pc # "start" /\ ~Logged("print_load_error", None)

\* C4: a failed write of one category's image is reported and does not end
\* the run: the figure is closed, the loop goes on to every later enabled
\* category, and a run that ends with such a failure behind it ends in the
\* summary with success unless the rendering of a later category raised.
C4_WriteFailureDoesNotAbort ==
  \A k \in DOMAIN out :
    out[k].ev = "print_save_failed" =>
      LET c == out[k].cat
      IN /\ k < Len(out) /\ out[k + 1] = Event("close", c, << >>)
         /\ FileOf(c) \notin files
         /\ pc \in {"loop", "render", "save", "done", "raised"}
         /\ pc = "raised" =>
              /\ exc \in {"RendererError", "ZeroDivisionError"}
              /\ pos > PosOf(c)
         /\ pc = "done" =>
              /\ result = "True"
              /\ Logged("print_summary", None)
              /\ \A d \in Categories :
                   (PosOf(d) > PosOf(c) /\ Enabled(d)) =>
                     /\ Logged("filter", d)
                     /\ Matching(d) # {} =>
                          /\ Logged("WordCloud", d)
                          /\ \/ FileOf(d) \in files
                             \/ Logged("print_save_failed", d)

C4_Witness ==
  /\ pc = "done"
  /\ result = "True"
  /\ Logged("print_save_failed", ALL)
  /\ files = {"_bp.png", "_mf.png"}

\* C5: a loaded table that lacks a required column makes the run report
\* exactly the missing names, in the order of the required list, and return
\* failure at once: no category is filtered, rendered or written.
C5_MissingColumnsAbortBeforeImages ==
  (df.columns # RequiredNames /\ RunLoaded) =>
    /\ pc \in {"loaded", "done"}
    /\ files = {}
    /\ exc = "None"
    /\ \A c \in Categories : ~Logged("filter", c) /\ ~Logged("WordCloud", c)
    /\ pc = "done" =>
         /\ result = "False"
         /\ Len(out) = 1
         /\ out[1].ev = "print_missing_cols"
         /\ Range(out[1].info) = RequiredNames \ df.columns
         /\ Len(out[1].info) = Cardinality(RequiredNames \ df.columns)

C5_Witness ==
  /\ pc = "done"
  /\ RunLoaded
  /\ df.columns = {"ID", "Description", "ONTOLOGY"}
  /\ out[1].info = <<"OccurrenceCount">>

\* C6: an image is written only for an enabled category with at least one
\* matching row; an enabled category without rows is skipped (no rendering,
\* no file), which does not keep the other enabled non-empty categories from
\* being written, and the summary reports its count, 0, from the full table.
C6_ImagesOnlyForEnabledNonEmpty ==
  /\ \A c \in Categories :
       FileOf(c) \in files => Enabled(c) /\ Matching(c) # {}
  /\ \A c \in Categories :
       (InLoop /\ pos > PosOf(c) /\ Enabled(c) /\ Matching(c) = {}) =>
         /\ Logged("print_skip", c)
         /\ ~Logged("WordCloud", c)
         /\ FileOf(c) \notin files
  /\ (pc = "done" /\ result = "True") =>
       /\ stats.total = Len(df.rows)
       /\ stats.bp = Cardinality(Matching(BP))
       /\ stats.cc = Cardinality(Matching(CC))
       /\ stats.mf = Cardinality(Matching(MF))
       /\ \A c \in Categories :
            Enabled(c) =>
              IF Matching(c) = {}
              THEN Logged("print_skip", c) /\ FileOf(c) \notin files
              ELSE FileOf(c) \in files \/ Logged("print_save_failed", c)

C6_Witness ==
  /\ pc = "done"
  /\ Logged("print_skip", CC)
  /\ stats.cc = 0
  /\ files = {"_all.png", "_mf.png"}
  /\ Enabled(BP)


IsAllAnyCase(s) ==
  /\ s # None
  /\ Len(s) = 3
  /\ s[1] \in {"a", "A"}
  /\ s[2] \in {"l", "L"}
  /\ s[3] \in {"l", "L"}

\* C7: filter_by_ontology returns the table unchanged when the category is
\* absent or is "ALL" in any letter case, and otherwise exactly the rows, in
\* order, whose ONTOLOGY equals the uppercased category (possibly none).
C7_FilterByOntology ==
  (pc = "return" /\ "ontology" \in DOMAIN args) =>
    IF args.ontology = None \/ IsAllAnyCase(args.ontology)
    THEN ret = args.df
    ELSE ret = SelectSeq(args.df, LAMBDA r : r.ONTOLOGY = Upper(args.ontology))

C7_Witness ==
  /\ pc = "return"
  /\ "ontology" \in DOMAIN args
  /\ args.ontology = <<"b", "p">>
  /\ Len(args.df) = 2
  /\ args.df[1].ONTOLOGY = <<"b", "p">>
  /\ args.df[2].ONTOLOGY = BP
  /\ ret = <<args.df[2]>>

\* the palette the claim names for the renderer call logged at out[k], when
\* "supplied" is read as given
PaletteExpected(k, supplied) ==
  LET eff == IF supplied THEN args.color_scheme ELSE DefaultPalette(out[k].cat)
  IN IF eff \in KnownPalettes THEN eff ELSE NoneName

\* C8 as stated: the effective palette is the global override whenever one
\* is supplied, else the category's default; an unknown effective name gives
\* no colour callback.
C8_OverrideWheneverSupplied ==
  \A k \in DOMAIN out :
    out[k].ev = "WordCloud" =>
      out[k].info = <<PaletteExpected(k, args.color_scheme # NoneName)>>

\* C8 amended: the effective palette is the global override when a non-empty
\* one is supplied, else (override absent or the empty string) the category's
\* default; an unknown effective name gives no colour callback.
C8_OverrideWhenNonEmpty ==
  \A k \in DOMAIN out :
    out[k].ev = "WordCloud" =>
      out[k].info =
        <<PaletteExpected(k, args.color_scheme \notin {NoneName, ""})>>

C8_Witness ==
  /\ args.color_scheme = "rainbow"
  /\ \E k \in DOMAIN out :
       /\ out[k].ev = "WordCloud"
       /\ out[k].cat = BP
       /\ out[k].info = <<NoneName>>

\* the log entries that may directly follow entry e in a sequential pass
\* over the categories in the order ALL, BP, CC, MF
MayFollow(e, n) ==
  CASE e.ev = "filter" ->
         /\ n.cat = e.cat
         /\ n.ev \in {"print_skip", "print_skip_empty_dict", "print_generating"}
    [] e.ev = "print_generating" -> n.cat = e.cat /\ n.ev = "WordCloud"
    [] e.ev = "WordCloud" ->
         n.cat = e.cat /\ n.ev \in {"print_saved", "print_save_failed"}
    [] e.ev \in {"print_saved", "print_save_failed"} ->
         n.cat = e.cat /\ n.ev = "close"
    [] e.ev \in {"close", "print_skip", "print_skip_empty_dict"} ->
         \/ n.ev = "print_summary"
         \/ n.ev = "filter" /\ PosOf(n.cat) > PosOf(e.cat)
    [] OTHER -> FALSE

\* C9: the categories are handled one after another in the order ALL, BP,
\* CC, MF: every step of an enabled category happens at most once and in
\* its place, nothing happens for a disabled category, a category has run
\* to its end (skipped, or rendered, written and closed) before anything
\* happens for a later one, and the summary comes last, after every enabled
\* category was handled.
C9_SequentialFixedOrder ==
  /\ \A k \in DOMAIN out :
       /\ out[k].cat # None => Enabled(out[k].cat)
       /\ k < Len(out) => MayFollow(out[k], out[k + 1])
  /\ out # << >> =>
       out[1].ev \in {"filter", "print_summary", "print_load_error",
                      "print_missing_cols"}
  /\ Logged("print_summary", None) =>
       /\ pc = "done"
       /\ \A c \in Categories : Enabled(c) => Logged("filter", c)

C9_Witness ==
  /\ pc = "done"
  /\ ~Enabled(BP)
  /\ Logged("close", ALL)
  /\ Logged("print_skip", CC)
  /\ Logged("close", MF)
  /\ Logged("print_summary", None)

====
